---- MODULE Spec2Model ----
(***************************************************************************)
(* A model of teleport (xGerTowelie/teleport): the bounded-depth search    *)
(* for .tmux descriptors (ListScripts), and the main pipeline that picks   *)
(* one with fzf, parses it and creates or attaches to the tmux session.    *)
(*                                                                         *)
(* Paths are sequences of names below the configured root (the root is    *)
(* the empty sequence).  A key sequence typed into a window is a sequence  *)
(* of tokens: <<"cd", basePath>> for fmt.Sprintf("cd %s", basePath), and   *)
(* <<c>> for a user command c.                                             *)
(***************************************************************************)
EXTENDS Integers, Sequences, FiniteSets, TLC

VARIABLES
    tree,       \* the directory tree below TP_DIRECTORY: a set of nodes
    scripts,    \* the slice ListScripts returns
    walkErr,    \* whether ListScripts returned an error
    pc,         \* position in main
    selected,   \* selectedScript
    fzfSpawned, \* whether exec.Command("fzf") was run
    parsed,     \* whether ReadSessionConfig was called
    session,    \* sessionConfig: [name, windows]
    basePath,   \* filepath.Dir(selectedScript)
    existed,    \* what sessionExists returned
    i,          \* createSession: index of the window being built
    j,          \* createSession: index of the next command of window i
    err,        \* the error createSession returned
    failure,    \* the stage of main whose call failed ("none" if none did)
    exitCode,   \* the process exit code, read once pc = "done"
    log,        \* the tmux commands issued in this run, oldest first
    results,    \* results[k]: whether log[k] succeeded (err == nil)
    mux,        \* the tmux server: base-index and the session's windows
    userOutcome,\* how the shell fares with the user command typed last
    muxBefore,  \* the tmux server as it was when this run started
    rerun,      \* whether the tool was run before on this server
    descFile,   \* the descriptor the .tmux file holds, NoSession until first read
    confData,   \* ReadConfig: the content of .tp.conf, a sequence of characters
    config,     \* ReadConfig: the map it returns
    confRead,   \* ReadConfig: whether it has returned
    pipeCap,    \* SelectScriptWithFzf: capacity of the stdin pipe, in lines
    pipeBuf,    \* the lines in the pipe
    wIdx,       \* writer goroutine: number of scripts it has passed to Fprintln
    wDone,      \* writer goroutine: whether it has returned
    stdinOpen,  \* whether the write end of the pipe is open
    closes,     \* how often the write end was closed
    fz,         \* the fzf process: "none", "reading", "stopped", "eof", "exited"
    fzRead,     \* the lines fzf has read
    sel         \* SelectScriptWithFzf: "pipe", "wait", "returned"

cfgVars == <<confData, config, confRead>>

selVars == <<pipeCap, pipeBuf, wIdx, wDone, stdinOpen, closes, fz, fzRead, sel>>

runVars == <<muxBefore, rerun, descFile>>

pipeVars == <<pc, selected, fzfSpawned, parsed, session, basePath, existed, i, j,
              err, failure, exitCode, log, results, mux, userOutcome>>

vars == <<tree, scripts, walkErr, pipeVars, runVars, cfgVars, selVars>>

----------------------------------------------------------------------------
(* Bounds *)

MaxTreeDepth == 4   \* longest chain of nested directories a/a/... in a tree
MaxWindows == 2     \* most windows in a descriptor
MaxConfLen == 5     \* most characters in .tp.conf
MaxCands == 3       \* most candidates handed to the picker
MaxPipeCap == 2     \* largest pipe buffer, in lines

----------------------------------------------------------------------------
(* Directory trees *)

\* The descriptor file name ListScripts looks for.
DescriptorName == ".tmux"

\* The depth bound of ListScripts.
DepthBound == 3

\* Entry names in the byte order readDirNames sorts them into.
LexOrder == <<".tmux", "a", "b", "n", "u">>

NameRank(n) == CHOOSE k \in 1..Len(LexOrder) : LexOrder[k] = n

\* What one directory of the chain a/a/... holds besides the next "a".
Decor == {"none", "file", "dirtmux", "sib", "unread"}

Node(p, d, r) == [path |-> p, dir |-> d, readable |-> r]

Chain(k) == [x \in 1..k |-> "a"]

DecorNodes(p, d) ==
    CASE d = "none" -> {}
      [] d = "file" -> {Node(p \o <<".tmux">>, FALSE, TRUE)}
      [] d = "dirtmux" -> {Node(p \o <<".tmux">>, TRUE, TRUE),
                           Node(p \o <<".tmux", ".tmux">>, FALSE, TRUE)}
      [] d = "sib" -> {Node(p \o <<"b">>, TRUE, TRUE),
                       Node(p \o <<"b", ".tmux">>, FALSE, TRUE),
                       Node(p \o <<"n">>, FALSE, TRUE)}
      [] d = "unread" -> {Node(p \o <<"u">>, TRUE, FALSE)}

\* The tree with directories root, a, a/a, ... and decor[k+1] in the k-th.
TreeOf(decor) ==
    {Node(Chain(k), TRUE, TRUE) : k \in 0..(Len(decor) - 1)}
    \cup UNION {DecorNodes(Chain(k), decor[k + 1]) : k \in 0..(Len(decor) - 1)}

Trees == {TreeOf(decor) : decor \in UNION {[1..n -> Decor] : n \in 1..(MaxTreeDepth + 1)}}

NodeAt(t, p) == CHOOSE n \in t : n.path = p

ChildNames(t, p) ==
    {n.path[Len(p) + 1] : n \in {m \in t : Len(m.path) = Len(p) + 1
                                        /\ SubSeq(m.path, 1, Len(p)) = p}}

RECURSIVE SortNames(_)
SortNames(S) ==
    IF S = {} THEN <<>>
    ELSE LET m == CHOOSE x \in S : \A y \in S : NameRank(x) <= NameRank(y)
         IN <<m>> \o SortNames(S \ {m})

\* filepath.Rel(root, path) split at the separator: "." for the root itself.
RelSplit(p) == IF p = <<>> THEN <<".">> ELSE p

\* The depth the walk function computes for an entry.
WalkDepth(p) == Len(RelSplit(p))

\* info.Name(): the base name (the root directory's own name is not ".tmux"
\* here: TP_DIRECTORY names a directory).
BaseName(p) == IF p = <<>> THEN "root" ELSE p[Len(p)]

\* The depth test of the walk function.
TooDeep(depth) == depth > DepthBound

\* The match test of the walk function.
IsDescriptor(name, isDir) == name = DescriptorName /\ ~isDir

\* A walk function that returns an error for an entry deeper than the bound.
WalkFnAbortsOnDepth(p, isDir, rerr) ==
    IF rerr \/ TooDeep(WalkDepth(p)) THEN [ret |-> "err", add |-> FALSE]
    ELSE [ret |-> "nil", add |-> IsDescriptor(BaseName(p), isDir)]

\* The function ListScripts hands to filepath.Walk: what it returns
\* ("nil", "skip" for filepath.SkipDir, "err") and whether it collects path.
WalkFn(p, isDir, rerr) ==
    IF rerr THEN [ret |-> "err", add |-> FALSE]
    ELSE IF TooDeep(WalkDepth(p))
         THEN [ret |-> IF isDir THEN "skip" ELSE "nil", add |-> FALSE]
         ELSE [ret |-> "nil", add |-> IsDescriptor(BaseName(p), isDir)]

\* filepath.walk: the function is called on the entry; a readable directory
\* on which it returned nil is descended into, names in sorted order.
RECURSIVE WalkNode(_, _, _), WalkNames(_, _, _, _)
WalkNode(t, p, acc) ==
    LET n == NodeAt(t, p)
        r == WalkFn(p, n.dir, n.dir /\ ~n.readable)
        acc1 == IF r.add THEN Append(acc, p) ELSE acc
    IN IF ~n.dir \/ ~n.readable \/ r.ret # "nil"
       THEN [scripts |-> acc1, ret |-> r.ret]
       ELSE WalkNames(t, p, SortNames(ChildNames(t, p)), acc1)

WalkNames(t, p, names, acc) ==
    IF names = <<>> THEN [scripts |-> acc, ret |-> "nil"]
    ELSE LET c == p \o <<Head(names)>>
             r == WalkNode(t, c, acc)
         IN IF r.ret # "nil" /\ (~NodeAt(t, c).dir \/ r.ret # "skip")
            THEN r
            ELSE WalkNames(t, p, Tail(names), r.scripts)

\* ListScripts(root): the collected paths and whether the walk failed.
ListScripts(t) ==
    LET r == WalkNode(t, <<>>, <<>>)
    IN [scripts |-> r.scripts, err |-> r.ret = "err"]

----------------------------------------------------------------------------
(* Descriptors and the tmux server *)

SessionNames == {"s", "t"}
WindowNames == {"w1", "w2"}
CommandLists == {<<>>, <<"c1">>, <<"c1", "c2">>, <<"c2", "c1">>}

\* TmuxWindow and TmuxSession as json.Unmarshal fills them.
TmuxWindow == [name : WindowNames, commands : CommandLists]

TmuxSession ==
    [name : SessionNames,
     windows : UNION {[1..n -> TmuxWindow] : n \in 0..MaxWindows}]

NoSession == [name |-> "", windows |-> <<>>]
NoErr == [msg |-> "", window |-> -1]
NoPath == <<"?">>

\* The window tmux opens in a new session, named after the shell.
DefaultWindow == [name |-> "shell", keys |-> <<>>]

\* A tmux command as main and createSession build it with exec.Command.
\* win is the window index of the target (-1: the target is the session);
\* wi is the index of the TmuxWindow it is issued for (-1: none), and step
\* the statement that issued it.
Cmd(op, sess, win, text, wi, step) ==
    [op |-> op, sess |-> sess, win |-> win, text |-> text, wi |-> wi, step |-> step]

HasSessionCmd(name) == Cmd("has-session", name, -1, <<>>, -1, "exists")

NewSessionCmd(name) == Cmd("new-session", name, -1, <<>>, -1, "create")

\* targetWindow := fmt.Sprintf("%s:%d", session.SessionName, i)
TargetWindow(k) == k

RenameWindowCmd(name, k, wname) ==
    Cmd("rename-window", name, TargetWindow(k), <<wname>>, k, "window")

NewWindowCmd(name, k, wname) == Cmd("new-window", name, -1, <<wname>>, k, "window")

\* A loop that creates a window for index 0 too.
WindowCmdAlwaysNew(name, k, wname) == NewWindowCmd(name, k, wname)

\* The first window is renamed, the others are created.
WindowCmd(name, k, wname) ==
    IF k = 0 THEN RenameWindowCmd(name, k, wname) ELSE NewWindowCmd(name, k, wname)

CdCmd(name, k, dir) == Cmd("send-keys", name, TargetWindow(k), <<"cd", dir>>, k, "cd")

SendCmd(name, k, c) == Cmd("send-keys", name, TargetWindow(k), <<c>>, k, "cmd")

AttachCmd(name) == Cmd("attach-session", name, -1, <<>>, -1, "attach")

\* The tmux server: its base-index option and, per session name, whether the
\* session is live and its windows; wins[k] is the window at index base+k-1.
Live(m, name) == m.sessions[name].live

Wins(m, name) == m.sessions[name].wins

HasWindow(m, name, idx) ==
    Live(m, name) /\ idx >= m.base /\ idx < m.base + Len(Wins(m, name))

SetSession(m, name, s) == [m EXCEPT !.sessions[name] = s]

\* What a successful command does to the server; Applies says whether the
\* command can succeed at all (its target exists, the name is free).
Applies(m, c) ==
    CASE c.op = "has-session" -> Live(m, c.sess)
      [] c.op = "new-session" -> ~Live(m, c.sess)
      [] c.op = "rename-window" -> HasWindow(m, c.sess, c.win)
      [] c.op = "new-window" -> Live(m, c.sess)
      [] c.op = "send-keys" -> HasWindow(m, c.sess, c.win)
      [] c.op = "attach-session" -> Live(m, c.sess)

Effect(m, c) ==
    CASE c.op = "new-session" ->
             SetSession(m, c.sess, [live |-> TRUE, wins |-> <<DefaultWindow>>])
      [] c.op = "rename-window" ->
             [m EXCEPT !.sessions[c.sess].wins[c.win - m.base + 1].name = c.text[1]]
      [] c.op = "new-window" ->
             [m EXCEPT !.sessions[c.sess].wins =
                 Append(@, [name |-> c.text[1], keys |-> <<>>])]
      [] c.op = "send-keys" ->
             [m EXCEPT !.sessions[c.sess].wins[c.win - m.base + 1].keys =
                 Append(@, c.text)]
      [] OTHER -> m

\* cmd.Run(): the command may always fail (err # nil, the server untouched);
\* it succeeds only where it applies.
Run(m, c) ==
    {[ok |-> FALSE, mux |-> m]}
    \cup (IF Applies(m, c) THEN {[ok |-> TRUE, mux |-> Effect(m, c)]} ELSE {})

----------------------------------------------------------------------------
(* The pipeline: main, createSession, attachSession *)

\* The trees the pipeline runs start from: no descriptor, an unreadable
\* directory, a descriptor in the root, one a directory below.
PipelineTrees ==
    {TreeOf(<<"none">>), TreeOf(<<"unread">>), TreeOf(<<"file">>),
     TreeOf(<<"none", "file">>)}

NoSessions == [n \in SessionNames |-> [live |-> FALSE, wins |-> <<>>]]

\* A server with base-index 0 or 1 on which session "s" may already run.
InitialMux ==
    {[base |-> b, sessions |-> ss] :
        b \in {0, 1},
        ss \in {NoSessions,
                [NoSessions EXCEPT !["s"] = [live |-> TRUE, wins |-> <<DefaultWindow>>]]}}

InitPipe(start) ==
    /\ pc = start
    /\ selected = NoPath
    /\ fzfSpawned = FALSE
    /\ parsed = FALSE
    /\ session = NoSession
    /\ basePath = NoPath
    /\ existed = FALSE
    /\ i = 0
    /\ j = 0
    /\ err = NoErr
    /\ failure = "none"
    /\ exitCode = 0
    /\ log = <<>>
    /\ results = <<>>
    /\ userOutcome = "none"

\* ReadConfig and SelectScriptWithFzf at rest.
ConfigIdle ==
    /\ confData = <<>>
    /\ config = <<>>
    /\ confRead = FALSE

SelectIdle ==
    /\ pipeCap = 1
    /\ pipeBuf = <<>>
    /\ wIdx = 0
    /\ wDone = FALSE
    /\ stdinOpen = FALSE
    /\ closes = 0
    /\ fz = "none"
    /\ fzRead = <<>>
    /\ sel = "pipe"

Init ==
    /\ tree \in PipelineTrees
    /\ scripts = <<>>
    /\ walkErr = FALSE
    /\ mux \in InitialMux
    /\ muxBefore = mux
    /\ rerun = FALSE
    /\ descFile = NoSession
    /\ InitPipe("config")
    /\ ConfigIdle
    /\ SelectIdle

\* fmt.Println(...); os.Exit(1)
Exit1(stage) ==
    /\ failure' = stage
    /\ exitCode' = 1
    /\ pc' = "done"

\* config, err := ReadConfig(); the file may be unreadable.
MainReadConfig ==
    /\ pc = "config"
    /\ \E ok \in BOOLEAN :
         IF ok THEN pc' = "root" /\ UNCHANGED <<failure, exitCode>>
         ELSE Exit1("config")
    /\ UNCHANGED <<cfgVars, selVars, runVars, userOutcome,
                   tree, scripts, walkErr, selected, fzfSpawned, parsed, session,
                   basePath, existed, i, j, err, log, results, mux>>

\* root, ok := config["TP_DIRECTORY"]; os.Stat(root)
MainRoot ==
    /\ pc = "root"
    /\ \E hasKey \in BOOLEAN, isDir \in BOOLEAN :
         IF ~hasKey THEN Exit1("key")
         ELSE IF ~isDir THEN Exit1("root")
         ELSE pc' = "list" /\ UNCHANGED <<failure, exitCode>>
    /\ UNCHANGED <<cfgVars, selVars, runVars, userOutcome,
                   tree, scripts, walkErr, selected, fzfSpawned, parsed, session,
                   basePath, existed, i, j, err, log, results, mux>>

\* A main without the len(scripts) == 0 test.
AfterListNoEmptyTest(r) ==
    IF r.err THEN Exit1("list")
    ELSE pc' = "select" /\ UNCHANGED <<failure, exitCode>>

\* What main does with the result of ListScripts.
AfterList(r) ==
    IF r.err THEN Exit1("list")
    ELSE IF Len(r.scripts) = 0 THEN Exit1("empty")
    ELSE pc' = "select" /\ UNCHANGED <<failure, exitCode>>

\* scripts, err := ListScripts(root)
MainListScripts ==
    /\ pc = "list"
    /\ LET r == ListScripts(tree)
       IN /\ scripts' = r.scripts
          /\ walkErr' = r.err
          /\ AfterList(r)
    /\ UNCHANGED <<cfgVars, selVars, runVars, userOutcome,
                   tree, selected, fzfSpawned, parsed, session, basePath, existed,
                   i, j, err, log, results, mux>>

\* selectedScript, err := SelectScriptWithFzf(scripts): the pipe may fail
\* before fzf runs, fzf may exit non-zero, or it prints the chosen line.
MainSelect ==
    /\ pc = "select"
    /\ \/ /\ Exit1("select")
          /\ UNCHANGED <<selected, fzfSpawned>>
       \/ /\ fzfSpawned' = TRUE
          /\ \/ Exit1("select") /\ UNCHANGED selected
             \/ \E k \in 1..Len(scripts) :
                  /\ selected' = scripts[k]
                  /\ pc' = "parse"
                  /\ UNCHANGED <<failure, exitCode>>
    /\ UNCHANGED <<cfgVars, selVars, runVars, userOutcome,
                   tree, scripts, walkErr, parsed, session, basePath, existed,
                   i, j, err, log, results, mux>>

\* filepath.Dir(selectedScript)
Dir(p) == SubSeq(p, 1, Len(p) - 1)

\* What json.Unmarshal may find in the file: any descriptor when the file is
\* read for the first time, the same one ever after.
FileContent(known) == IF known = NoSession THEN TmuxSession ELSE {known}

\* sessionConfig, err := ReadSessionConfig(selectedScript); basePath
MainParse ==
    /\ pc = "parse"
    /\ parsed' = TRUE
    /\ \/ Exit1("parse") /\ UNCHANGED <<session, basePath, descFile>>
       \/ /\ descFile' \in FileContent(descFile)
          /\ session' = descFile'
          /\ basePath' = Dir(selected)
          /\ pc' = "exists"
          /\ UNCHANGED <<failure, exitCode>>
    /\ UNCHANGED <<cfgVars, selVars, muxBefore, rerun, userOutcome,
                   tree, scripts, walkErr, selected, fzfSpawned, existed,
                   i, j, err, log, results, mux>>

\* A main that builds the session whatever sessionExists returned.
AfterExistsAlwaysCreates(ok) == "create"

\* A main that gives up when has-session fails.
AfterExistsFailureEnds(ok) == IF ok THEN "attachOld" ELSE "done"

\* A main that rebuilds the windows of a session that exists.
AfterExistsResyncs(ok) == IF ok THEN "window" ELSE "create"

\* Where main goes on the result of sessionExists.
AfterExists(ok) == IF ok THEN "attachOld" ELSE "create"

\* sessionExists(sessionConfig.SessionName): err == nil
MainSessionExists ==
    /\ pc = "exists"
    /\ \E r \in Run(mux, HasSessionCmd(session.name)) :
         /\ log' = Append(log, HasSessionCmd(session.name))
         /\ mux' = r.mux
         /\ results' = Append(results, r.ok)
         /\ existed' = r.ok
         /\ pc' = AfterExists(r.ok)
    /\ UNCHANGED <<cfgVars, selVars, runVars, userOutcome,
                   tree, scripts, walkErr, selected, fzfSpawned, parsed, session,
                   basePath, i, j, err, failure, exitCode>>

\* What main does when attachSession fails for a session that existed.
AttachOldFailed ==
    /\ failure' = "attach"
    /\ pc' = "done"
    /\ UNCHANGED exitCode

\* The session exists: attachSession, and its error is printed.
MainAttachExisting ==
    /\ pc = "attachOld"
    /\ \E r \in Run(mux, AttachCmd(session.name)) :
         /\ log' = Append(log, AttachCmd(session.name))
         /\ mux' = r.mux
         /\ results' = Append(results, r.ok)
         /\ IF r.ok THEN pc' = "done" /\ UNCHANGED <<failure, exitCode>>
            ELSE AttachOldFailed
    /\ UNCHANGED <<cfgVars, selVars, runVars, userOutcome,
                   tree, scripts, walkErr, selected, fzfSpawned, parsed, session,
                   basePath, existed, i, j, err>>

\* createSession returns fmt.Errorf(...) to main.
ReturnErr(e) ==
    /\ err' = e
    /\ pc' = "createErr"

\* The errors of createSession.
SessionErr == [msg |-> "failed to create session", window |-> -1]

WindowErr(k) == [msg |-> "failed to create window", window |-> -1]

CdErr(k) == [msg |-> "failed to change directory in window %d", window |-> k]

SendErr(k) == [msg |-> "failed to send command to window %d", window |-> k]

\* A createSession that goes on to the windows although new-session failed.
CreateNewSessionIgnoresError ==
    /\ pc = "create"
    /\ \E r \in Run(mux, NewSessionCmd(session.name)) :
         /\ log' = Append(log, NewSessionCmd(session.name))
         /\ mux' = r.mux
         /\ results' = Append(results, r.ok)
         /\ pc' = "window"
         /\ i' = 0
         /\ UNCHANGED err
    /\ UNCHANGED <<cfgVars, selVars, runVars, userOutcome,
                   tree, scripts, walkErr, selected, fzfSpawned, parsed, session,
                   basePath, existed, j, failure, exitCode>>

\* createSession: tmux new-session -d -s name
CreateNewSession ==
    /\ pc = "create"
    /\ \E r \in Run(mux, NewSessionCmd(session.name)) :
         /\ log' = Append(log, NewSessionCmd(session.name))
         /\ mux' = r.mux
         /\ results' = Append(results, r.ok)
         /\ IF r.ok THEN pc' = "window" /\ i' = 0 /\ UNCHANGED <<err>>
            ELSE ReturnErr(SessionErr) /\ UNCHANGED i
    /\ UNCHANGED <<cfgVars, selVars, runVars, userOutcome,
                   tree, scripts, walkErr, selected, fzfSpawned, parsed, session,
                   basePath, existed, j, failure, exitCode>>

\* createSession: the loop head; rename-window for i == 0, new-window otherwise.
CreateWindow ==
    /\ pc = "window"
    /\ i < Len(session.windows)
    /\ LET c == WindowCmd(session.name, i, session.windows[i + 1].name)
       IN \E r \in Run(mux, c) :
            /\ log' = Append(log, c)
            /\ mux' = r.mux
            /\ results' = Append(results, r.ok)
            /\ IF r.ok THEN pc' = "cd" /\ UNCHANGED <<err>>
               ELSE ReturnErr(WindowErr(i))
    /\ UNCHANGED <<cfgVars, selVars, runVars, userOutcome,
                   tree, scripts, walkErr, selected, fzfSpawned, parsed, session,
                   basePath, existed, i, j, failure, exitCode>>

\* A createSession that sends a failed cd once more before giving up.
SendCdRetriesOnce ==
    /\ pc = "cd"
    /\ LET c == CdCmd(session.name, i, basePath)
       IN \E r \in Run(mux, c) :
            /\ log' = Append(log, c)
            /\ mux' = r.mux
            /\ results' = Append(results, r.ok)
            /\ IF r.ok THEN pc' = "cmd" /\ j' = 0 /\ UNCHANGED err
               ELSE IF log[Len(log)] = c THEN ReturnErr(CdErr(i)) /\ UNCHANGED j
               ELSE UNCHANGED <<pc, j, err>>
    /\ UNCHANGED <<cfgVars, selVars, runVars, userOutcome,
                   tree, scripts, walkErr, selected, fzfSpawned, parsed, session,
                   basePath, existed, i, failure, exitCode>>

\* A loop body without the directory change.
SendCdSkipped ==
    /\ pc = "cd"
    /\ pc' = "cmd"
    /\ j' = 0
    /\ UNCHANGED <<cfgVars, selVars, runVars, userOutcome,
                   tree, scripts, walkErr, selected, fzfSpawned, parsed, session,
                   basePath, existed, i, err, failure, exitCode, log, results, mux>>

\* createSession: send-keys "cd basePath" C-m
SendCd ==
    /\ pc = "cd"
    /\ LET c == CdCmd(session.name, i, basePath)
       IN \E r \in Run(mux, c) :
            /\ log' = Append(log, c)
            /\ mux' = r.mux
            /\ results' = Append(results, r.ok)
            /\ IF r.ok THEN pc' = "cmd" /\ j' = 0 /\ UNCHANGED <<err>>
               ELSE ReturnErr(CdErr(i)) /\ UNCHANGED j
    /\ UNCHANGED <<cfgVars, selVars, runVars, userOutcome,
                   tree, scripts, walkErr, selected, fzfSpawned, parsed, session,
                   basePath, existed, i, failure, exitCode>>

\* What becomes of a command line typed into a window: the shell runs it,
\* and it succeeds, fails, or is still running; createSession never looks.
UserOutcomes == {"ok", "failed", "running"}

\* A createSession that waits for the typed command and reports its failure.
SendCommandWaits ==
    /\ pc = "cmd"
    /\ j < Len(session.windows[i + 1].commands)
    /\ LET c == SendCmd(session.name, i, session.windows[i + 1].commands[j + 1])
       IN \E r \in Run(mux, c) :
            /\ log' = Append(log, c)
            /\ mux' = r.mux
            /\ results' = Append(results, r.ok)
            /\ IF r.ok
               THEN \E o \in UserOutcomes :
                      /\ userOutcome' = o
                      /\ IF o = "failed" THEN ReturnErr(SendErr(i)) /\ UNCHANGED j
                         ELSE j' = j + 1 /\ UNCHANGED <<pc, err>>
               ELSE ReturnErr(SendErr(i)) /\ UNCHANGED <<j, userOutcome>>
    /\ UNCHANGED <<cfgVars, selVars, runVars,
                   tree, scripts, walkErr, selected, fzfSpawned, parsed, session,
                   basePath, existed, i, failure, exitCode>>

\* createSession: send-keys cmdStr C-m, for the next command of the window
SendCommand ==
    /\ pc = "cmd"
    /\ j < Len(session.windows[i + 1].commands)
    /\ LET c == SendCmd(session.name, i, session.windows[i + 1].commands[j + 1])
       IN \E r \in Run(mux, c) :
            /\ log' = Append(log, c)
            /\ mux' = r.mux
            /\ results' = Append(results, r.ok)
            /\ IF r.ok
               THEN /\ j' = j + 1
                    /\ userOutcome' \in UserOutcomes
                    /\ UNCHANGED <<pc, err>>
               ELSE ReturnErr(SendErr(i)) /\ UNCHANGED <<j, userOutcome>>
    /\ UNCHANGED <<cfgVars, selVars, runVars,
                   tree, scripts, walkErr, selected, fzfSpawned, parsed, session,
                   basePath, existed, i, failure, exitCode>>

\* A createSession that returns nil from inside the loop.
NextWindowReturnsEarly ==
    /\ pc = "cmd"
    /\ j = Len(session.windows[i + 1].commands)
    /\ i' = i + 1
    /\ pc' = "attachNew"
    /\ UNCHANGED <<cfgVars, selVars, runVars, userOutcome,
                   tree, scripts, walkErr, selected, fzfSpawned, parsed, session,
                   basePath, existed, j, err, failure, exitCode, log, results, mux>>

\* createSession: the commands of window i are sent; on to the next window.
NextWindow ==
    /\ pc = "cmd"
    /\ j = Len(session.windows[i + 1].commands)
    /\ i' = i + 1
    /\ pc' = "window"
    /\ UNCHANGED <<cfgVars, selVars, runVars, userOutcome,
                   tree, scripts, walkErr, selected, fzfSpawned, parsed, session,
                   basePath, existed, j, err, failure, exitCode, log, results, mux>>

\* A createSession that rejects a descriptor without windows.
CreateReturnRejectsEmpty ==
    /\ pc = "window"
    /\ i = Len(session.windows)
    /\ IF Len(session.windows) = 0
       THEN ReturnErr(WindowErr(0))
       ELSE pc' = "attachNew" /\ UNCHANGED err
    /\ UNCHANGED <<cfgVars, selVars, runVars, userOutcome,
                   tree, scripts, walkErr, selected, fzfSpawned, parsed, session,
                   basePath, existed, i, j, failure, exitCode, log, results, mux>>

\* createSession: return nil; main goes on to attach.
CreateReturn ==
    /\ pc = "window"
    /\ i = Len(session.windows)
    /\ pc' = "attachNew"
    /\ UNCHANGED <<cfgVars, selVars, runVars, userOutcome,
                   tree, scripts, walkErr, selected, fzfSpawned, parsed, session,
                   basePath, existed, i, j, err, failure, exitCode, log, results, mux>>

\* A main that attaches although createSession returned an error.
MainCreateFailedAttaches ==
    /\ pc = "createErr"
    /\ pc' = "attachNew"
    /\ UNCHANGED <<cfgVars, selVars, runVars, userOutcome,
                   tree, scripts, walkErr, selected, fzfSpawned, parsed, session,
                   basePath, existed, i, j, err, failure, exitCode, log, results, mux>>

\* main: createSession returned an error.
MainCreateFailed ==
    /\ pc = "createErr"
    /\ Exit1("create")
    /\ UNCHANGED <<cfgVars, selVars, runVars, userOutcome,
                   tree, scripts, walkErr, selected, fzfSpawned, parsed, session,
                   basePath, existed, i, j, err, log, results, mux>>

\* main: attachSession after createSession.
MainAttachCreated ==
    /\ pc = "attachNew"
    /\ \E r \in Run(mux, AttachCmd(session.name)) :
         /\ log' = Append(log, AttachCmd(session.name))
         /\ mux' = r.mux
         /\ results' = Append(results, r.ok)
         /\ IF r.ok THEN pc' = "done" /\ UNCHANGED <<failure, exitCode>>
            ELSE Exit1("attach")
    /\ UNCHANGED <<cfgVars, selVars, runVars, userOutcome,
                   tree, scripts, walkErr, selected, fzfSpawned, parsed, session,
                   basePath, existed, i, j, err>>

Next ==
    \/ MainReadConfig
    \/ MainRoot
    \/ MainListScripts
    \/ MainSelect
    \/ MainParse
    \/ MainSessionExists
    \/ MainAttachExisting
    \/ CreateNewSession
    \/ CreateWindow
    \/ SendCd
    \/ SendCommand
    \/ NextWindow
    \/ CreateReturn
    \/ MainCreateFailed
    \/ MainAttachCreated

Spec == Init /\ [][Next]_vars

\* The tool is run again on the same server, tree and descriptor file.
Rerun ==
    /\ pc = "done"
    /\ pc' = "config"
    /\ selected' = NoPath
    /\ fzfSpawned' = FALSE
    /\ parsed' = FALSE
    /\ session' = NoSession
    /\ basePath' = NoPath
    /\ existed' = FALSE
    /\ i' = 0
    /\ j' = 0
    /\ err' = NoErr
    /\ failure' = "none"
    /\ exitCode' = 0
    /\ log' = <<>>
    /\ results' = <<>>
    /\ userOutcome' = "none"
    /\ scripts' = <<>>
    /\ walkErr' = FALSE
    /\ muxBefore' = mux
    /\ rerun' = TRUE
    /\ UNCHANGED <<cfgVars, selVars, tree, mux, descFile>>

NextRuns == Next \/ Rerun

SpecRuns == Init /\ [][NextRuns]_vars

----------------------------------------------------------------------------
(* The search alone, over every tree of the bounds *)

InitLocate ==
    /\ tree \in Trees
    /\ scripts = <<>>
    /\ walkErr = FALSE
    /\ mux \in {[base |-> 0, sessions |-> NoSessions]}
    /\ muxBefore = mux
    /\ rerun = FALSE
    /\ descFile = NoSession
    /\ InitPipe("list")
    /\ ConfigIdle
    /\ SelectIdle

SpecLocate == InitLocate /\ [][MainListScripts]_vars

----------------------------------------------------------------------------
(* ReadConfig alone, over every settings file of the bounds *)

\* The characters of a settings file; "nl" is the line feed.
ConfChars == {"#", "=", " ", "k", "v", "nl"}

ConfFiles == UNION {[1..n -> ConfChars] : n \in 0..MaxConfLen}

\* strings.Split(data, "\n"): cur is the line being read.
RECURSIVE SplitLines(_, _)
SplitLines(data, cur) ==
    IF data = <<>> THEN <<cur>>
    ELSE IF Head(data) = "nl" THEN <<cur>> \o SplitLines(Tail(data), <<>>)
    ELSE SplitLines(Tail(data), Append(cur, Head(data)))

\* line == "" || strings.HasPrefix(line, "#")
Skipped(line) == line = <<>> \/ line[1] = "#"

\* strings.SplitN(line, "=", 2)
RECURSIVE SplitN2(_, _)
SplitN2(rest, before) ==
    IF rest = <<>> THEN <<before>>
    ELSE IF Head(rest) = "=" THEN <<before, Tail(rest)>>
    ELSE SplitN2(Tail(rest), Append(before, Head(rest)))

IsSpace(c) == c = " "

RECURSIVE TrimLeft(_)
TrimLeft(v) == IF v # <<>> /\ IsSpace(Head(v)) THEN TrimLeft(Tail(v)) ELSE v

RECURSIVE TrimRight(_)
TrimRight(v) ==
    IF v # <<>> /\ IsSpace(v[Len(v)]) THEN TrimRight(SubSeq(v, 1, Len(v) - 1)) ELSE v

\* A trim of the right end only.
TrimSpaceRightOnly(v) == TrimRight(v)

\* strings.TrimSpace
TrimSpace(v) == TrimLeft(TrimRight(v))

\* The loop body of ReadConfig: what one line does to the map.
ConfigLine(cfg, line) ==
    IF Skipped(line) THEN cfg
    ELSE LET parts == SplitN2(line, <<>>)
         IN IF Len(parts) = 2
            THEN [k \in DOMAIN cfg \cup {parts[1]} |->
                     IF k = parts[1] THEN TrimSpace(parts[2]) ELSE cfg[k]]
            ELSE cfg

RECURSIVE ConfigLines(_, _)
ConfigLines(cfg, lines) ==
    IF lines = <<>> THEN cfg
    ELSE ConfigLines(ConfigLine(cfg, Head(lines)), Tail(lines))

\* ReadConfig, once the file is read: the map from key to value.
ReadConfig(data) == ConfigLines(<<>>, SplitLines(data, <<>>))

\* The pipeline at rest, for the specifications of single functions.
PipelineIdle(start) ==
    /\ tree = TreeOf(<<"none">>)
    /\ walkErr = FALSE
    /\ mux = [base |-> 0, sessions |-> NoSessions]
    /\ muxBefore = mux
    /\ rerun = FALSE
    /\ descFile = NoSession
    /\ InitPipe(start)

InitConfig ==
    /\ confData \in ConfFiles
    /\ config = <<>>
    /\ confRead = FALSE
    /\ scripts = <<>>
    /\ PipelineIdle("config")
    /\ SelectIdle

\* config := ReadConfig()
ConfigRead ==
    /\ ~confRead
    /\ config' = ReadConfig(confData)
    /\ confRead' = TRUE
    /\ UNCHANGED <<confData, selVars, runVars, pipeVars, tree, scripts, walkErr>>

SpecConfig == InitConfig /\ [][ConfigRead]_vars

----------------------------------------------------------------------------
(* SelectScriptWithFzf alone: the writer goroutine, fzf and cmd.Output *)

\* n candidate paths, as the walk forms them.
Candidates(n) == [k \in 1..n |-> Chain(k - 1) \o <<DescriptorName>>]

\* After cmd.StdinPipe() and the go statement: the pipe is open at both
\* ends, nothing is written, fzf is not started.
InitSelect ==
    /\ \E n \in 1..MaxCands : scripts = Candidates(n)
    /\ pipeCap \in 1..MaxPipeCap
    /\ pipeBuf = <<>>
    /\ wIdx = 0
    /\ wDone = FALSE
    /\ stdinOpen = TRUE
    /\ closes = 0
    /\ fz = "none"
    /\ fzRead = <<>>
    /\ sel = "pipe"
    /\ PipelineIdle("select")
    /\ ConfigIdle

\* fzf runs: it holds the read end of the pipe.
Running == {"reading", "stopped", "eof"}

\* The read end is held by this process until cmd.Start, then by fzf.
ReadEndOpen == sel = "pipe" \/ fz \in Running

\* closeOnce.Close: the first call closes the write end, later calls do not.
CloseStdin ==
    /\ stdinOpen' = FALSE
    /\ closes' = IF stdinOpen THEN closes + 1 ELSE closes

\* A select that starts fzf only once the writer has finished.
SelStartAfterWriter ==
    /\ sel = "pipe"
    /\ wDone
    /\ \/ /\ sel' = "started"
          /\ fz' = "reading"
          /\ UNCHANGED <<stdinOpen, closes>>
       \/ /\ sel' = "returned"
          /\ CloseStdin
          /\ UNCHANGED fz
    /\ UNCHANGED <<pipeCap, pipeBuf, wIdx, wDone, fzRead,
                   cfgVars, runVars, pipeVars, tree, scripts, walkErr>>

\* cmd.Output() up to cmd.Start(): fzf starts, or it cannot be started and
\* Output returns the error after closing the pipe.
SelStart ==
    /\ sel = "pipe"
    /\ \/ /\ sel' = "started"
          /\ fz' = "reading"
          /\ UNCHANGED <<stdinOpen, closes>>
       \/ /\ sel' = "returned"
          /\ CloseStdin
          /\ UNCHANGED fz
    /\ UNCHANGED <<pipeCap, pipeBuf, wIdx, wDone, fzRead,
                   cfgVars, runVars, pipeVars, tree, scripts, walkErr>>

\* fmt.Fprintln(stdin, script): the line enters the pipe when there is room;
\* with either end closed the write fails and the loop goes on; with the
\* pipe full and both ends open the writer waits.
WriterWrite ==
    /\ ~wDone
    /\ wIdx < Len(scripts)
    /\ \/ /\ stdinOpen /\ ReadEndOpen
          /\ Len(pipeBuf) < pipeCap
          /\ pipeBuf' = Append(pipeBuf, scripts[wIdx + 1])
       \/ /\ ~stdinOpen \/ ~ReadEndOpen
          /\ UNCHANGED pipeBuf
    /\ wIdx' = wIdx + 1
    /\ UNCHANGED <<pipeCap, wDone, stdinOpen, closes, fz, fzRead, sel,
                   cfgVars, runVars, pipeVars, tree, scripts, walkErr>>

\* A writer that may close its end before the loop is over.
WriterCloseEarly ==
    /\ ~wDone
    /\ wIdx <= Len(scripts)
    /\ wDone' = TRUE
    /\ CloseStdin
    /\ UNCHANGED <<pipeCap, pipeBuf, wIdx, fz, fzRead, sel,
                   cfgVars, runVars, pipeVars, tree, scripts, walkErr>>

\* defer stdin.Close(), when the loop is over.
WriterClose ==
    /\ ~wDone
    /\ wIdx = Len(scripts)
    /\ wDone' = TRUE
    /\ CloseStdin
    /\ UNCHANGED <<pipeCap, pipeBuf, wIdx, fz, fzRead, sel,
                   cfgVars, runVars, pipeVars, tree, scripts, walkErr>>

\* fzf reads the next line of its standard input.
PickerRead ==
    /\ fz = "reading"
    /\ pipeBuf # <<>>
    /\ fzRead' = Append(fzRead, Head(pipeBuf))
    /\ pipeBuf' = Tail(pipeBuf)
    /\ UNCHANGED <<pipeCap, wIdx, wDone, stdinOpen, closes, fz, sel,
                   cfgVars, runVars, pipeVars, tree, scripts, walkErr>>

\* fzf reads end of file: the pipe is empty and its write end is closed.
PickerEOF ==
    /\ fz = "reading"
    /\ pipeBuf = <<>>
    /\ ~stdinOpen
    /\ fz' = "eof"
    /\ UNCHANGED <<pipeCap, pipeBuf, wIdx, wDone, stdinOpen, closes, fzRead, sel,
                   cfgVars, runVars, pipeVars, tree, scripts, walkErr>>

\* fzf stops reading without exiting.
PickerStop ==
    /\ fz = "reading"
    /\ fz' = "stopped"
    /\ UNCHANGED <<pipeCap, pipeBuf, wIdx, wDone, stdinOpen, closes, fzRead, sel,
                   cfgVars, runVars, pipeVars, tree, scripts, walkErr>>

\* fzf exits, whatever it has read; its end of the pipe closes.
PickerExit ==
    /\ fz \in Running
    /\ fz' = "exited"
    /\ UNCHANGED <<pipeCap, pipeBuf, wIdx, wDone, stdinOpen, closes, fzRead, sel,
                   cfgVars, runVars, pipeVars, tree, scripts, walkErr>>

\* cmd.Wait() inside cmd.Output(): fzf has exited, the write end is closed
\* if the writer has not closed it, and select returns.
SelWait ==
    /\ sel = "started"
    /\ fz = "exited"
    /\ sel' = "returned"
    /\ CloseStdin
    /\ UNCHANGED <<pipeCap, pipeBuf, wIdx, wDone, fz, fzRead,
                   cfgVars, runVars, pipeVars, tree, scripts, walkErr>>

NextSelect ==
    \/ SelStart
    \/ WriterWrite
    \/ WriterClose
    \/ PickerRead
    \/ PickerEOF
    \/ PickerStop
    \/ PickerExit
    \/ SelWait

SpecSelect == InitSelect /\ [][NextSelect]_vars

\* The goroutine and main are both scheduled, and fzf terminates.
FairSpecSelect ==
    /\ SpecSelect
    /\ WF_vars(SelStart)
    /\ WF_vars(WriterWrite \/ WriterClose)
    /\ WF_vars(PickerExit)
    /\ WF_vars(SelWait)

----------------------------------------------------------------------------
(* Properties *)

Last(q) == q[Len(q)]

IsPrefix(p, q) == Len(p) <= Len(q) /\ SubSeq(q, 1, Len(p)) = p

Indices(q, P(_)) == {k \in 1..Len(q) : P(q[k])}

BuildOps == {"new-session", "rename-window", "new-window", "send-keys"}

WindowOps == {"rename-window", "new-window"}

IsBuild(c) == c.op \in BuildOps

IsWindowOp(c) == c.op \in WindowOps

IsSendKeys(c) == c.op = "send-keys"

IsAttach(c) == c.op = "attach-session"

\* The run found no session, and every command after has-session succeeded.
BuiltAndAttached == pc = "done" /\ failure = "none" /\ parsed /\ ~existed

\* C1: when has-session reports that the session exists, the run issues no
\* new-session, rename-window, new-window or send-keys; after has-session
\* the only command is one attach-session for that session name.
C1_ExistingOnlyAttach ==
    existed =>
        /\ Indices(log, IsBuild) = {}
        /\ log[1].op = "has-session" /\ log[1].sess = session.name
        /\ Len(log) <= 2
        /\ Len(log) = 2 => (log[2].op = "attach-session" /\ log[2].sess = session.name)
        /\ pc = "done" => Len(log) = 2

C1_Witness == existed /\ pc = "done" /\ Len(log) = 2 /\ failure = "none"

\* The commands the claimed order prescribes for window k (0-based) of a
\* descriptor: rename (k = 0) or create, cd, then the commands ascending.
ClaimedWindow(d, dir, k) ==
    LET w == d.windows[k + 1]
    IN <<[op |-> IF k = 0 THEN "rename-window" ELSE "new-window",
          sess |-> d.name, win |-> IF k = 0 THEN 0 ELSE -1,
          text |-> <<w.name>>, wi |-> k, step |-> "window"],
         [op |-> "send-keys", sess |-> d.name, win |-> k,
          text |-> <<"cd", dir>>, wi |-> k, step |-> "cd"]>>
       \o [n \in 1..Len(w.commands) |->
             [op |-> "send-keys", sess |-> d.name, win |-> k,
              text |-> <<w.commands[n]>>, wi |-> k, step |-> "cmd"]]

RECURSIVE ClaimedWindows(_, _, _)
ClaimedWindows(d, dir, k) ==
    IF k >= Len(d.windows) THEN <<>>
    ELSE ClaimedWindow(d, dir, k) \o ClaimedWindows(d, dir, k + 1)

ClaimedOrder(d, dir) ==
    <<[op |-> "has-session", sess |-> d.name, win |-> -1, text |-> <<>>,
       wi |-> -1, step |-> "exists"],
      [op |-> "new-session", sess |-> d.name, win |-> -1, text |-> <<>>,
       wi |-> -1, step |-> "create"]>>
    \o ClaimedWindows(d, dir, 0)
    \o <<[op |-> "attach-session", sess |-> d.name, win |-> -1, text |-> <<>>,
          wi |-> -1, step |-> "attach"]>>

\* C2: for a session that does not exist yet, the commands are issued one at
\* a time in the order has-session, new-session, then per window in order
\* rename-window or new-window, the cd, the window's commands ascending, and
\* at last attach: at every moment the commands issued are an initial part
\* of that order, and all of it once every command succeeded.
C2_CommandOrder ==
    (parsed /\ ~existed) =>
        /\ IsPrefix(log, ClaimedOrder(session, basePath))
        /\ BuiltAndAttached => log = ClaimedOrder(session, basePath)

C2_Witness ==
    /\ BuiltAndAttached
    /\ Len(session.windows) = 2
    /\ session.windows[1].commands = <<"c2", "c1">>
    /\ session.windows[2].commands = <<"c1", "c2">>

IsCd(c) == c.op = "send-keys" /\ c.text = <<"cd", basePath>>

IsUserCmd(c) == c.op = "send-keys" /\ c.text # <<"cd", basePath>>

\* The cd of each window comes in window order, before the window's commands.
CdFirstInWindow ==
    \A a \in Indices(log, IsCd) :
        /\ \A b \in Indices(log, IsCd) : (log[a].win < log[b].win) => a < b
        /\ \A b \in Indices(log, IsUserCmd) : (log[a].win = log[b].win) => a < b

\* C3 as claimed: N rename/create operations and N+1 cd send-keys.
C3_Claimed_NPlusOneCd ==
    BuiltAndAttached =>
        /\ Cardinality(Indices(log, IsWindowOp)) = Len(session.windows)
        /\ Cardinality(Indices(log, IsCd)) = Len(session.windows) + 1

\* C3, amended: a successful materialize of N windows into a new session
\* issues exactly N rename/create operations (one rename-window and N-1
\* new-window when N >= 1) and exactly N cd send-keys, one per window, in
\* window order and before any user command of the same window.
C3_WindowAndCdCounts ==
    BuiltAndAttached =>
        /\ Cardinality(Indices(log, IsWindowOp)) = Len(session.windows)
        /\ Len(session.windows) >= 1 =>
              Cardinality({k \in Indices(log, IsWindowOp) : log[k].op = "rename-window"}) = 1
        /\ Cardinality(Indices(log, IsCd)) = Len(session.windows)
        /\ \A w \in 0..(Len(session.windows) - 1) :
              Cardinality({k \in Indices(log, IsCd) : log[k].win = w}) = 1
        /\ CdFirstInWindow

C3_Witness ==
    /\ BuiltAndAttached
    /\ Len(session.windows) = 2
    /\ Len(session.windows[1].commands) = 2

\* C4: with base-index 0 or 1, every rename-window and send-keys issued for
\* windows[i] targets the window index base + i, which exists.
C4_Claimed_TargetsBasePlusI ==
    \A k \in 1..Len(log) :
        (log[k].op \in {"rename-window", "send-keys"}) =>
            log[k].win = mux.base + log[k].wi

\* Depth as the claim counts it: the number of directories between the root
\* and the file (a/.tmux has depth 1).
ClaimedDepth(p) == Len(p) - 1

ClaimedFiles(t) ==
    {n.path : n \in {m \in t : /\ ~m.dir
                                /\ m.path[Len(m.path)] = ".tmux"
                                /\ ClaimedDepth(m.path) <= 3}}

Located == {scripts[k] : k \in 1..Len(scripts)}

\* C5: locate returns exactly the regular files named .tmux at depth 0, 1, 2
\* or 3 (a/.tmux is depth 1), and none deeper.
C5_Claimed_DepthThree ==
    (pc # "list" /\ ~walkErr) => Located = ClaimedFiles(tree)

\* C6: when a tmux command of createSession fails while a window is built,
\* the error returned names the index of that window.
C6_Claimed_ErrorNamesWindow ==
    (err # NoErr /\ Last(log).op \in (WindowOps \cup {"send-keys"})) =>
        err.window = Last(log).wi

\* C7: the exit code is 1 whenever a stage failed and 0 only when none did.
C7_Claimed_ExitCode ==
    pc = "done" => (exitCode = IF failure = "none" THEN 0 ELSE 1)

\* C8: once rename-window, new-window or send-keys failed while window i was
\* built, no further tmux command is issued in the run and the server keeps
\* the session and the windows built so far as they are.
C8_StopsAtFailure ==
    /\ [][(err # NoErr /\ Last(log).op # "new-session")
            => (log' = log /\ mux' = mux)]_vars
    /\ [](err # NoErr /\ Last(log).op # "new-session"
            => /\ Last(log).wi = i
               /\ Live(mux, session.name)
               /\ Len(Wins(mux, session.name)) =
                     IF Last(log).op = "new-window" THEN i ELSE i + 1
               /\ Indices(log, IsAttach) = {})

C8_Witness ==
    /\ pc = "done"
    /\ failure = "create"
    /\ i = 1
    /\ Last(log).op = "send-keys"
    /\ Len(Wins(mux, session.name)) = 2

\* C9: when ListScripts returns no path, the run ends with a failure before
\* fzf is spawned, and parses nothing and issues no tmux command.
C9_EmptyStopsBeforePicker ==
    /\ fzfSpawned => Len(scripts) > 0
    /\ (pc \notin {"config", "root", "list"} /\ failure \notin {"config", "key", "root"}
        /\ Len(scripts) = 0)
         => /\ pc = "done"
            /\ exitCode = 1
            /\ failure \in {"empty", "list"}
            /\ ~fzfSpawned
            /\ ~parsed
            /\ log = <<>>

C9_Witness == pc = "done" /\ failure = "empty" /\ ~walkErr

\* C10: for a descriptor without windows and a session that does not exist,
\* has-session and new-session are followed by no rename-window, new-window
\* or send-keys; once new-session succeeded createSession succeeds, attach is
\* issued next, and the session holds only the window tmux opened.
C10_ZeroWindows ==
    (parsed /\ ~existed /\ Len(session.windows) = 0 /\ Len(log) >= 2) =>
        /\ log[2].op = "new-session"
        /\ Indices(log, IsWindowOp) = {} /\ Indices(log, IsSendKeys) = {}
        /\ err # NoErr => (err = SessionErr /\ Len(log) = 2)
        /\ err = NoErr =>
              /\ pc \in {"window", "attachNew", "done"}
              /\ Wins(mux, session.name) = <<DefaultWindow>>
              /\ pc = "done" => (Len(log) = 3 /\ log[3] = AttachCmd(session.name))

C10_Witness ==
    /\ BuiltAndAttached
    /\ Len(session.windows) = 0
    /\ Len(log) = 3

HasSessionFailed == Len(results) >= 1 /\ ~results[1]

NewSessionFailed == Len(results) >= 2 /\ log[2].op = "new-session" /\ ~results[2]

\* C14: if new-session fails, createSession fails at once, no rename-window,
\* new-window, send-keys or attach is issued in the run, and the server is
\* exactly as it was before the run.
C14_NewSessionFailure ==
    NewSessionFailed =>
        /\ Len(log) = 2
        /\ err = [msg |-> "failed to create session", window |-> -1]
        /\ mux = muxBefore
        /\ pc \in {"createErr", "done"}
        /\ pc = "done" => (failure = "create" /\ exitCode = 1)

C14_Witness == NewSessionFailed /\ pc = "done" /\ ~Live(mux, session.name)

\* C15: a has-session that does not succeed, whatever the cause, is taken as
\* 'the session does not exist': the run goes on to new-session, never
\* straight to a failure or to attach.
C15_FailedQueryMeansAbsent ==
    HasSessionFailed =>
        /\ ~existed
        /\ pc # "attachOld"
        /\ Len(log) = 1 => pc = "create"
        /\ Len(log) >= 2 => (log[2].op = "new-session" /\ log[2].sess = session.name)

C15_Witness ==
    /\ HasSessionFailed
    /\ Live(muxBefore, session.name)
    /\ Len(log) = 2
    /\ pc = "done"

\* The commands a run issues, given the descriptor, the base path and the
\* results of the tmux commands alone.
DeterminedLog(d, dir, res) ==
    IF res = <<>> THEN <<>>
    ELSE IF res[1]
         THEN SubSeq(<<ClaimedOrder(d, dir)[1], Last(ClaimedOrder(d, dir))>>, 1, Len(res))
         ELSE SubSeq(ClaimedOrder(d, dir), 1, Len(res))

\* The stage that failed, given the same.
DeterminedFailure(d, dir, res) ==
    IF Last(res) \/ Len(res) = 1 THEN "none"
    ELSE IF DeterminedLog(d, dir, res)[Len(res)].op = "attach-session" THEN "attach"
    ELSE "create"

\* C16: the commands issued and the state the run ends in are determined by
\* the descriptor, the base path and the results of the tmux commands; what
\* becomes of the user commands typed into the windows has no part in them.
C16_UserOutcomesInvisible ==
    parsed /\ session # NoSession =>
        /\ Len(log) = Len(results)
        /\ log = DeterminedLog(session, basePath, results)
        /\ \A k \in 2..(Len(results) - 1) : results[k]
        /\ (err # NoErr) <=>
              (Len(results) >= 2 /\ ~Last(results) /\ Last(log).op # "attach-session")
        /\ pc = "done" => failure = DeterminedFailure(session, basePath, results)

C16_Witness ==
    /\ pc = "done"
    /\ failure = "none"
    /\ userOutcome = "failed"
    /\ Len(session.windows) = 2

NoRetry == \A a, b \in 1..Len(log) : (a # b) => (log[a] # log[b])

\* An upper bound on the steps main has left, counted from the descriptor
\* in the file: every window costs its commands and three more steps.
RECURSIVE StepsForWindows(_, _)
StepsForWindows(d, k) ==
    IF k > Len(d.windows) THEN 0
    ELSE Len(d.windows[k].commands) + 3 + StepsForWindows(d, k + 1)

LongestCommands == CHOOSE n \in {Len(c) : c \in CommandLists} :
                       \A c \in CommandLists : Len(c) <= n

\* The same for a file not read yet: the most any descriptor can cost.
StepsForFile ==
    IF descFile = NoSession THEN MaxWindows * (LongestCommands + 3)
    ELSE StepsForWindows(descFile, 1)

StepsLeft ==
    CASE pc = "done" -> 0
      [] pc \in {"attachOld", "attachNew", "createErr"} -> 1
      [] pc = "window" -> 2 + StepsForWindows(session, i + 1)
      [] pc = "cd" -> 1 + StepsForWindows(session, i + 1)
      [] pc = "cmd" -> 3 + (Len(session.windows[i + 1].commands) - j)
                         + StepsForWindows(session, i + 2)
      [] pc = "create" -> 3 + StepsForWindows(session, 1)
      [] pc = "exists" -> 4 + StepsForWindows(session, 1)
      [] pc = "parse" -> 5 + StepsForFile
      [] pc = "select" -> 6 + StepsForFile
      [] pc = "list" -> 7 + StepsForFile
      [] pc = "root" -> 8 + StepsForFile
      [] pc = "config" -> 9 + StepsForFile

\* C17: provided every external command returns, the run reaches its end and
\* stays there, and no tmux command is issued a second time: every step
\* brings the end nearer, a step is always possible before the end and none
\* after it, and the commands issued are all different.
C17_TerminatesWithoutRetry ==
    /\ [][StepsLeft' < StepsLeft]_vars
    /\ [](StepsLeft >= 0)
    /\ []((pc # "done") <=> ENABLED Next)
    /\ []NoRetry

C17_Witness ==
    /\ pc = "done"
    /\ err # NoErr
    /\ Len(log) >= 6

\* C19: attach-session is issued at most once in a run, and only after
\* has-session succeeded or after new-session and every command of every
\* window succeeded; never while the session is being built, nor after a
\* failure of createSession or of an earlier stage.
C19_AttachOnlyWhenReady ==
    /\ Cardinality(Indices(log, IsAttach)) <= 1
    /\ \A k \in Indices(log, IsAttach) :
          /\ k = Len(log)
          /\ err = NoErr
          /\ \/ results[1] /\ k = 2
             \/ /\ ~results[1]
                /\ k = Len(ClaimedOrder(session, basePath))
                /\ SubSeq(log, 1, k - 1) = SubSeq(ClaimedOrder(session, basePath), 1, k - 1)
                /\ \A m \in 2..(k - 1) : results[m]
    /\ (pc \in {"create", "window", "cd", "cmd", "createErr"}
        \/ failure \in {"config", "key", "root", "list", "empty", "select", "parse", "create"})
          => Indices(log, IsAttach) = {}

C19_Witness ==
    /\ Indices(log, IsAttach) = {Len(log)}
    /\ ~existed
    /\ Len(session.windows) = 2
    /\ Len(log) >= 8

\* A run of the tool on a server where an earlier run left the session.
LaterRunOnLiveSession ==
    rerun /\ descFile # NoSession /\ Live(muxBefore, descFile.name)

\* C20 as claimed: every later run finds the session existing and only
\* attaches, issuing no construction command.
C20_Claimed_LaterRunsOnlyAttach ==
    LaterRunOnLiveSession =>
        /\ Indices(log, IsBuild) = {}
        /\ Len(results) >= 1 => results[1]

\* C20, amended: while the session lives, a later run with the same
\* descriptor whose has-session succeeds only attaches; one whose has-session
\* fails issues new-session alone, which fails; either way the session's
\* windows stay as the earlier run left them.
C20_LaterRunsChangeNothing ==
    LaterRunOnLiveSession =>
        /\ mux = muxBefore
        /\ Len(results) >= 1 =>
              IF results[1]
              THEN /\ Indices(log, IsBuild) = {}
                   /\ Len(log) <= 2
                   /\ Len(log) = 2 => log[2].op = "attach-session"
              ELSE /\ Len(log) <= 2
                   /\ Len(log) = 2 => (log[2].op = "new-session" /\ ~results[2])
                   /\ pc = "done" => failure = "create"

C20_Witness ==
    /\ rerun
    /\ descFile.name = "t"
    /\ Len(descFile.windows) = 2
    /\ Len(Wins(muxBefore, "t")) = 1
    /\ existed
    /\ pc = "done"

\* The directories the walk skips: those deeper than the bound.
SkippedDirs(t) == {n.path : n \in {m \in t : m.dir /\ Len(m.path) > 3}}

\* p is visited after q and lies outside q: the paths part at some name, and
\* p's sorts later there.
VisitedAfter(p, q) ==
    \E k \in 1..Len(p) :
        /\ k <= Len(q)
        /\ SubSeq(p, 1, k - 1) = SubSeq(q, 1, k - 1)
        /\ NameRank(p[k]) > NameRank(q[k])

\* The regular files named .tmux that the bound permits, by the count the
\* walk skips directories with: at most three names below the root.
PermittedFiles(t) ==
    {n.path : n \in {m \in t : /\ ~m.dir
                                /\ m.path[Len(m.path)] = ".tmux"
                                /\ Len(m.path) <= 3}}

\* C18: a directory deeper than the bound is skipped without aborting the
\* walk: every regular file named .tmux at permitted depth that is visited
\* after the skipped directory is still collected, depth causes no error,
\* and no directory is collected, whatever its name.
C18_SkipKeepsSiblings ==
    pc # "list" =>
        /\ walkErr => \E n \in tree : n.dir /\ ~n.readable
        /\ \A k \in 1..Len(scripts) : ~NodeAt(tree, scripts[k]).dir
        /\ ~walkErr =>
              \A q \in SkippedDirs(tree) :
                  \A f \in PermittedFiles(tree) : VisitedAfter(f, q) => f \in Located

C18_Witness ==
    /\ pc # "list"
    /\ ~walkErr
    /\ \E q \in SkippedDirs(tree) :
          \E f \in PermittedFiles(tree) : VisitedAfter(f, q) /\ f \in Located
    /\ \E n \in tree : n.dir /\ n.path # <<>> /\ n.path[Len(n.path)] = ".tmux"

\* The lines of a settings file, by where they start.
LineStarts(data) == {1} \cup {k + 1 : k \in {n \in 1..Len(data) : data[n] = "nl"}}

LineEnd(data, st) ==
    IF \E k \in st..Len(data) : data[k] = "nl"
    THEN (CHOOSE k \in st..Len(data) :
              data[k] = "nl" /\ \A n \in st..(k - 1) : data[n] # "nl") - 1
    ELSE Len(data)

LineFrom(data, st) == SubSeq(data, st, LineEnd(data, st))

\* The lines that set a key: not blank, not starting with #, holding an =.
SettingStarts(data) ==
    {st \in LineStarts(data) :
        LET l == LineFrom(data, st)
        IN l # <<>> /\ l[1] # "#" /\ \E k \in 1..Len(l) : l[k] = "="}

FirstEq(l) == CHOOSE k \in 1..Len(l) : l[k] = "=" /\ \A n \in 1..(k - 1) : l[n] # "="

KeyOf(l) == SubSeq(l, 1, FirstEq(l) - 1)

RawValueOf(l) == SubSeq(l, FirstEq(l) + 1, Len(l))

\* v without its trailing blanks, and without leading and trailing blanks.
WithoutTrailing(v) ==
    LET keep == {k \in 1..Len(v) : v[k] # " "}
    IN IF keep = {} THEN <<>>
       ELSE SubSeq(v, 1, CHOOSE k \in keep : \A n \in keep : n <= k)

WithoutSurrounding(v) ==
    LET keep == {k \in 1..Len(v) : v[k] # " "}
    IN IF keep = {} THEN <<>>
       ELSE SubSeq(v, CHOOSE k \in keep : \A n \in keep : k <= n,
                      CHOOSE k \in keep : \A n \in keep : n <= k)

\* The line that decides key: the last one that sets it.
DecidingLine(data, key) ==
    LET sts == {st \in SettingStarts(data) : KeyOf(LineFrom(data, st)) = key}
    IN LineFrom(data, CHOOSE st \in sts : \A o \in sts : o <= st)

SettingKeys(data) == {KeyOf(LineFrom(data, st)) : st \in SettingStarts(data)}

\* C11 as claimed: blank lines and # lines are ignored, a line is split at
\* its first =, the key is stored untrimmed and the value with only its
\* trailing whitespace removed.
C11_Claimed_RightTrimOnly ==
    confRead =>
        /\ DOMAIN config = SettingKeys(confData)
        /\ \A key \in DOMAIN config :
              config[key] = WithoutTrailing(RawValueOf(DecidingLine(confData, key)))

\* C11, amended: the same, but the value is stored with its leading and its
\* trailing whitespace removed.
C11_ValuesTrimmedBothEnds ==
    confRead =>
        /\ DOMAIN config = SettingKeys(confData)
        /\ \A key \in DOMAIN config :
              config[key] = WithoutSurrounding(RawValueOf(DecidingLine(confData, key)))

C11_Witness ==
    /\ confRead
    /\ confData = <<"k", "=", " ", "=", "v">>
    /\ config[<<"k">>] = <<"=", "v">>

\* C12: whatever the number of candidates, the pipe capacity and the way
\* fzf reads, the writer ends with its end of the pipe closed, a started fzf
\* reads end of file or exits, and select returns.
C12_NoDeadlock ==
    /\ <>[](wDone /\ ~stdinOpen)
    /\ [](fz \in Running => <>(fz \in {"eof", "exited"}))
    /\ <>[](sel = "returned")

\* fzf stopped reading with the pipe full and candidates still unwritten;
\* the writer ended all the same and select returned.
C12_Witness ==
    /\ sel = "returned"
    /\ wDone
    /\ fz = "exited"
    /\ Len(pipeBuf) = pipeCap
    /\ Len(fzRead) + Len(pipeBuf) < Len(scripts)

\* C13: what fzf has read is always a prefix of the candidates in the
\* walk's order; it reads end of file only when every candidate has been
\* written and read; the write end is closed at most once, and exactly once
\* by the time select returns.
C13_PickerReadsPrefix ==
    /\ IsPrefix(fzRead, scripts)
    /\ fz = "eof" => wIdx = Len(scripts) /\ fzRead = scripts
    /\ closes <= 1
    /\ sel = "returned" => closes = 1

C13_Witness ==
    /\ fz = "eof"
    /\ Len(scripts) > pipeCap
    /\ fzRead = scripts
    /\ closes = 1

====
